---- MODULE Spec2Model ----
(***************************************************************************)
(* A model of pr_monitor/app.py: the PRDashboard refresh cycle (fetch,     *)
(* deduplicate, classify, enrich, re-classify, sort, render), the priority *)
(* classifier determine_pr_status and the scheduling of refresh cycles by  *)
(* on_mount, the interval timer and action_refresh.                        *)
(*                                                                         *)
(* Text is modelled as a sequence of fragments: "Review Requested" is      *)
(* <<"Review", " ", "Requested">>.  Lower-casing maps fragments, a         *)
(* substring test is a test for a contiguous run of fragments, and a login *)
(* is a single fragment.                                                   *)
(***************************************************************************)
EXTENDS Integers, Sequences, FiniteSets, TLC

VARIABLES
    config,      \* self.config: [loaded, accounts]; not loaded before on_mount (None)
    env,         \* the process environment: token_env_var -> token ("" = not set)
    pr_urls,     \* self.pr_urls: row key -> PR web URL
    usernames,   \* self.usernames: token_env_var -> login
    last_update, \* self.last_update: 0 = None, n = stamp of the n-th emit
    status_bar,  \* text of the #status-bar widget
    container,   \* children of #main-container: the mounted sections
    mounted,     \* on_mount has run
    started,     \* number of refresh_data coroutines started so far
    cyc,         \* slot -> the local state of the refresh_data coroutine in it
    emitted,     \* the snapshot most recently emitted by a finished cycle
    notice,      \* the last notification of action_open_pr (<<>> before the first)
    cl,          \* one call of determine_pr_status (SpecClassify)
    rw,          \* one row's way through refresh_data (SpecRow)
    rs,          \* calls of get_check_status on one client script (SpecResolve)
    qb           \* one call of build_queries (SpecQueries)

appVars == <<config, env, pr_urls, usernames, last_update, status_bar,
             container, mounted, started, cyc, emitted, notice>>
vars == <<config, env, pr_urls, usernames, last_update, status_bar,
          container, mounted, started, cyc, emitted, notice, cl, rw, rs, qb>>

-----------------------------------------------------------------------------
(* Text helpers *)

\* str.lower() on one fragment
Lower(s) ==
    CASE s = "Review" -> "review"
      [] s = "Requested" -> "requested"
      [] s = "Approved" -> "approved"
      [] s = "Review-Requested:@me" -> "review-requested:@me"
      [] s = "WIP" -> "wip"
      [] s = "Blocked" -> "blocked"
      [] s = "Changes" -> "changes"
      [] s = "Alice" -> "alice"
      [] s = "Bob" -> "bob"
      [] s = "SUCCESS" -> "success"
      [] OTHER -> s

\* str.lower() on a text
LowerText(t) == [i \in DOMAIN t |-> Lower(t[i])]

\* needle in text (Python's substring test, on fragments)
InText(needle, t) ==
    \E i \in 0..(Len(t) - Len(needle)) :
        \A j \in 1..Len(needle) : t[i + j] = needle[j]

\* " ".join(texts)
RECURSIVE JoinSpace(_)
JoinSpace(texts) ==
    IF texts = <<>> THEN <<>>
    ELSE IF Len(texts) = 1 THEN texts[1]
    ELSE texts[1] \o <<" ">> \o JoinSpace(Tail(texts))

\* x in list
InList(x, list) == \E i \in DOMAIN list : list[i] = x

-----------------------------------------------------------------------------
(* Priority (IntEnum) and the classifier *)

HIGH == 1
MEDIUM == 2
LOW == 3

\* reviewer_info=None, the default of determine_pr_status
NoReviewerInfo == [given |-> FALSE, requested_reviewers |-> <<>>, requested_teams |-> <<>>]

\* is_my_pr: author.lower() == username.lower() if username else False
is_my_pr(author, username) ==
    IF username # "" THEN Lower(author) = Lower(username) ELSE FALSE

\* is_assigned: any(a.login.lower() == username.lower() for a in assignees) if username
is_assigned(assignees, username) ==
    IF username # ""
    THEN \E i \in DOMAIN assignees : Lower(assignees[i]) = Lower(username)
    ELSE FALSE

\* is_review_request_query
is_review_request_query(query_label) ==
    \/ InText(<<"review-requested:@me">>, LowerText(query_label))
    \/ InText(<<"review", " ", "requested">>, LowerText(query_label))

\* the words whose presence in the joined label names means "Changes Needed"
ChangeWords == {"changes", "requested", "wip", "blocked"}

\* any(word in " ".join(labels) for word in [...]) over the lower-cased names
has_change_label(labels) ==
    LET joined == JoinSpace([i \in DOMAIN labels |-> LowerText(labels[i])])
    IN  \E w \in ChangeWords : InText(<<w>>, joined)

\* review_flags reading the reviewer info whatever the query label is
review_flags_any_query(query_label, username, reviewer_info) ==
    IF reviewer_info.given
    THEN LET ind == IF username # ""
                    THEN InList(username, reviewer_info.requested_reviewers)
                    ELSE FALSE
         IN  [individual |-> ind,
              team |-> (reviewer_info.requested_teams # <<>>) /\ ~ind]
    ELSE IF is_review_request_query(query_label)
    THEN [individual |-> TRUE, team |-> FALSE]
    ELSE [individual |-> FALSE, team |-> FALSE]

\* review_flags without the fallback branch of line 494
review_flags_no_fallback(query_label, username, reviewer_info) ==
    IF is_review_request_query(query_label) /\ reviewer_info.given
    THEN LET ind == IF username # ""
                    THEN InList(username, reviewer_info.requested_reviewers)
                    ELSE FALSE
         IN  [individual |-> ind,
              team |-> (reviewer_info.requested_teams # <<>>) /\ ~ind]
    ELSE [individual |-> FALSE, team |-> FALSE]

\* the individual / team review request flags of determine_pr_status
review_flags(query_label, username, reviewer_info) ==
    IF is_review_request_query(query_label) /\ reviewer_info.given
    THEN LET ind == IF username # ""
                    THEN InList(username, reviewer_info.requested_reviewers)
                    ELSE FALSE
         IN  [individual |-> ind,
              team |-> (reviewer_info.requested_teams # <<>>) /\ ~ind]
    ELSE IF is_review_request_query(query_label)
    THEN [individual |-> TRUE, team |-> FALSE]
    ELSE [individual |-> FALSE, team |-> FALSE]

\* determine_pr_status without its closing default for somebody else's PR
determine_pr_status_without_default(pr, query_label, username, reviewer_info) ==
    LET mine == is_my_pr(pr.user, username)
        asg == is_assigned(pr.assignees, username)
        fl == review_flags(query_label, username, reviewer_info)
    IN  IF fl.individual \/ asg
        THEN IF asg /\ fl.individual
             THEN [priority |-> HIGH, status |-> "Action Needed"]
             ELSE IF fl.individual
             THEN [priority |-> HIGH, status |-> "Review"]
             ELSE [priority |-> HIGH, status |-> "Assigned"]
        ELSE IF fl.team
        THEN [priority |-> MEDIUM, status |-> "Team Review"]
        ELSE IF mine
        THEN IF has_change_label(pr.labels)
             THEN [priority |-> MEDIUM, status |-> "Changes Needed"]
             ELSE IF InText(<<"approved">>, LowerText(query_label))
             THEN [priority |-> LOW, status |-> "Approved"]
             ELSE [priority |-> LOW, status |-> "Waiting"]
        ELSE [priority |-> LOW, status |-> "None"]

\* determine_pr_status(pr, query_label, username, reviewer_info)
\* pr carries user (the author login, "" when absent), assignees and labels
determine_pr_status(pr, query_label, username, reviewer_info) ==
    LET mine == is_my_pr(pr.user, username)
        asg == is_assigned(pr.assignees, username)
        fl == review_flags(query_label, username, reviewer_info)
    IN  IF fl.individual \/ asg
        THEN IF asg /\ fl.individual
             THEN [priority |-> HIGH, status |-> "Action Needed"]
             ELSE IF fl.individual
             THEN [priority |-> HIGH, status |-> "Review"]
             ELSE [priority |-> HIGH, status |-> "Assigned"]
        ELSE IF fl.team
        THEN [priority |-> MEDIUM, status |-> "Team Review"]
        ELSE IF mine
        THEN IF has_change_label(pr.labels)
             THEN [priority |-> MEDIUM, status |-> "Changes Needed"]
             ELSE IF InText(<<"approved">>, LowerText(query_label))
             THEN [priority |-> LOW, status |-> "Approved"]
             ELSE [priority |-> LOW, status |-> "Waiting"]
        ELSE [priority |-> LOW, status |-> "Watching"]

-----------------------------------------------------------------------------
(* QueryBuilder: build_queries *)

\* str.split(): the fragments between the spaces
split(t) == SelectSeq(t, LAMBDA f : f # " ")

\* the query list used when filters has no "queries" entry
DefaultQueries ==
    << [label |-> <<"Review", " ", "Requested">>,
        query |-> <<"is:pr", " ", "is:open", " ", "review-requested:@me">>] >>

\* the f"repo:{repo}" tokens appended when scope is "specific"
repo_parts(filters) ==
    IF filters.scope = "specific"
    THEN [i \in DOMAIN filters.repos |-> <<"repo:", filters.repos[i]>>]
    ELSE <<>>

\* build_queries(account_config): <<[label, query]>>, the query as its list of parts
\* (the joined string is the parts separated by single spaces)
build_queries(account) ==
    LET filters == account.filters
        query_configs == IF filters.has_queries THEN filters.queries ELSE DefaultQueries
    IN  [i \in DOMAIN query_configs |->
            [label |-> query_configs[i].label,
             query |-> [j \in DOMAIN split(query_configs[i].query) |->
                           <<split(query_configs[i].query)[j]>>] \o repo_parts(filters)]]

-----------------------------------------------------------------------------
(* CheckStatusResolver: get_check_status *)

\* check_runs_status looking for a failed run before a running one
check_runs_status_failing_first(check_runs) ==
    IF \E i \in DOMAIN check_runs :
          check_runs[i].conclusion \in {"failure", "timed_out", "action_required"}
    THEN "failing"
    ELSE IF \E i \in DOMAIN check_runs : check_runs[i].status \in {"in_progress", "queued"}
    THEN "pending"
    ELSE IF \A i \in DOMAIN check_runs :
                check_runs[i].conclusion # "" => check_runs[i].conclusion = "success"
    THEN "success"
    ELSE "unknown"

\* the outcome of one list of check runs (lines 305-322)
check_runs_status(check_runs) ==
    IF \E i \in DOMAIN check_runs : check_runs[i].status \in {"in_progress", "queued"}
    THEN "pending"
    ELSE IF \E i \in DOMAIN check_runs :
                check_runs[i].conclusion \in {"failure", "timed_out", "action_required"}
    THEN "failing"
    ELSE IF \A i \in DOMAIN check_runs :
                check_runs[i].conclusion # "" => check_runs[i].conclusion = "success"
    THEN "success"
    ELSE "unknown"

\* status_map without its "error" entry
status_map_without_error(state) ==
    CASE state = "success" -> "success"
      [] state = "pending" -> "pending"
      [] state = "failure" -> "failing"
      [] OTHER -> "unknown"

\* status_map.get(state, unknown) of the legacy combined status
status_map(state) ==
    CASE state = "success" -> "success"
      [] state = "pending" -> "pending"
      [] state = "failure" -> "failing"
      [] state = "error" -> "failing"
      [] OTHER -> "unknown"

\* reviewer_info_of leaving the teams out
reviewer_info_without_teams(detail) ==
    [given |-> TRUE,
     requested_reviewers |-> detail.requested_reviewers,
     requested_teams |-> <<>>]

\* lines 257-262: the logins and slugs of the detail response
reviewer_info_of(detail) ==
    [given |-> TRUE,
     requested_reviewers |-> detail.requested_reviewers,
     requested_teams |-> detail.requested_teams]

\* the dict of a resolution that keeps what the resolution before it left
LeftoverReviewerInfo ==
    IF rs.stage = "other" THEN rs.other.reviewer_info
    ELSE [given |-> TRUE, requested_reviewers |-> <<>>, requested_teams |-> <<>>]

\* the dict get_check_status starts from (both lists empty)
EmptyReviewerInfo == [given |-> TRUE, requested_reviewers |-> <<>>, requested_teams |-> <<>>]

\* one request of get_check_status: the endpoint and the commit SHA in its URL
Call(endpoint, sha) == [endpoint |-> endpoint, sha |-> sha]

\* get_check_status going on to the legacy status request when the check-runs
\* request failed
get_check_status_legacy_after_failure(pr, detail, runs, legacy) ==
    IF ~pr.has_pull_request_url
    THEN [status |-> "unknown", reviewer_info |-> EmptyReviewerInfo, calls |-> <<>>]
    ELSE IF detail.kind # "ok"
    THEN [status |-> "unknown", reviewer_info |-> EmptyReviewerInfo,
          calls |-> <<Call("detail", "")>>]
    ELSE LET info == reviewer_info_of(detail)
             sha == detail.sha
         IN  IF sha = "" \/ "repository_url" \notin pr.keys
             THEN [status |-> "unknown", reviewer_info |-> info,
                   calls |-> <<Call("detail", "")>>]
             ELSE IF runs.kind # "ok" \/ runs.check_runs = <<>>
             THEN [status |-> IF legacy.kind = "ok"
                              THEN status_map(Lower(legacy.state))
                              ELSE "unknown",
                   reviewer_info |-> info,
                   calls |-> <<Call("detail", ""), Call("check-runs", sha),
                               Call("status", sha)>>]
             ELSE [status |-> check_runs_status(runs.check_runs),
                   reviewer_info |-> info,
                   calls |-> <<Call("detail", ""), Call("check-runs", sha)>>]

\* get_check_status(pr, headers, client), the three responses being those the
\* client gives to the detail, check-runs and legacy-status requests if they are
\* issued.  A response is [kind |-> "ok" | "http_error" | "raise", ...].
\* Returns the status, the reviewer info and the calls issued, in order.
get_check_status(pr, detail, runs, legacy) ==
    IF ~pr.has_pull_request_url
    THEN [status |-> "unknown", reviewer_info |-> EmptyReviewerInfo, calls |-> <<>>]
    ELSE IF detail.kind # "ok"
    THEN [status |-> "unknown", reviewer_info |-> EmptyReviewerInfo,
          calls |-> <<Call("detail", "")>>]
    ELSE LET info == reviewer_info_of(detail)
             sha == detail.sha
         IN  IF sha = "" \/ "repository_url" \notin pr.keys
             THEN [status |-> "unknown", reviewer_info |-> info,
                   calls |-> <<Call("detail", "")>>]
             ELSE IF runs.kind # "ok"
             THEN [status |-> "unknown", reviewer_info |-> info,
                   calls |-> <<Call("detail", ""), Call("check-runs", sha)>>]
             ELSE IF runs.check_runs = <<>>
             THEN [status |-> IF legacy.kind = "ok"
                              THEN status_map(Lower(legacy.state))
                              ELSE "unknown",
                   reviewer_info |-> info,
                   calls |-> <<Call("detail", ""), Call("check-runs", sha),
                               Call("status", sha)>>]
             ELSE [status |-> check_runs_status(runs.check_runs),
                   reviewer_info |-> info,
                   calls |-> <<Call("detail", ""), Call("check-runs", sha)>>]

-----------------------------------------------------------------------------
(* calculate_age: the rendered age, as its characters' code points *)

\* str(n) for n >= 0
RECURSIVE Digits(_)
Digits(n) == IF n < 10 THEN <<48 + n>> ELSE Digits(n \div 10) \o <<48 + (n % 10)>>

\* calculate_age(created_at); created_at is [valid, days, seconds], the parsed
\* timestamp's distance from now (timedelta days and seconds)
calculate_age(created_at) ==
    IF ~created_at.valid THEN <<63>>                               \* "?"
    ELSE IF created_at.days > 0 THEN Digits(created_at.days) \o <<100>>           \* "{n}d"
    ELSE IF created_at.seconds >= 3600 THEN Digits(created_at.seconds \div 3600) \o <<104>>
    ELSE IF created_at.seconds >= 60 THEN Digits(created_at.seconds \div 60) \o <<109>>
    ELSE <<110, 111, 119>>                                         \* "now"

\* a < b for Python strings (code-point order, a proper prefix is smaller)
RECURSIVE StrLess(_, _)
StrLess(a, b) ==
    IF b = <<>> THEN FALSE
    ELSE IF a = <<>> THEN TRUE
    ELSE IF a[1] # b[1] THEN a[1] < b[1]
    ELSE StrLess(Tail(a), Tail(b))

-----------------------------------------------------------------------------
(* Aggregator: the row pipeline of refresh_data *)

\* the keys refresh_data subscripts on every retained search item (lines 573-577)
RowKeys == {"repository_url", "title", "user", "created_at", "html_url"}

\* pr.get("user", {}).get("login", "")
author_of(pr) == IF "user" \in pr.keys THEN pr.user ELSE ""

\* the web URL of a PR (pr["html_url"])
html_url(pr) == <<"https://host/pull/", pr.id>>

\* the row_data dict built for a retained PR (lines 565-598), before enrichment
build_row(account_label, username, query_label, pr) ==
    LET first == determine_pr_status(
                     [user |-> author_of(pr), assignees |-> pr.assignees,
                      labels |-> pr.labels],
                     query_label, username, NoReviewerInfo)
    IN  [priority |-> first.priority,
         status |-> first.status,
         account |-> account_label,
         account_username |-> username,
         state |-> IF pr.draft THEN query_label \o <<" ", "(Draft)">> ELSE query_label,
         author |-> pr.user,
         age |-> calculate_age(pr.created_at),
         url |-> html_url(pr),
         key |-> <<account_label, "_", pr.id>>,
         checks |-> "unknown",
         pr |-> pr,
         assignees |-> pr.assignees,
         query_label |-> query_label,
         has_reviewer_info |-> FALSE,
         reviewer_info |-> NoReviewerInfo]

\* add_pr without the seen_prs test
add_pr_without_seen(acc, tuple, pr) ==
    IF acc.raised THEN acc
    ELSE IF "id" \notin pr.keys THEN [acc EXCEPT !.raised = TRUE]
    ELSE IF ~(RowKeys \subseteq pr.keys) THEN [acc EXCEPT !.raised = TRUE]
    ELSE [acc EXCEPT !.rows = Append(@, build_row(tuple.account_label, tuple.username,
                                                  tuple.query_label, pr))]

\* one step of the loop over prs (lines 556-599); acc is [labels, rows, seen, raised]
add_pr(acc, tuple, pr) ==
    IF acc.raised THEN acc
    ELSE IF "id" \notin pr.keys THEN [acc EXCEPT !.raised = TRUE]
    ELSE IF pr.id \in acc.seen THEN acc
    ELSE IF ~(RowKeys \subseteq pr.keys) THEN [acc EXCEPT !.raised = TRUE, !.seen = @ \cup {pr.id}]
    ELSE [acc EXCEPT !.seen = @ \cup {pr.id},
                     !.rows = Append(@, build_row(tuple.account_label, tuple.username,
                                                  tuple.query_label, pr))]

RECURSIVE walk_prs(_, _, _)
walk_prs(acc, tuple, prs) ==
    IF prs = <<>> THEN acc
    ELSE walk_prs(add_pr(acc, tuple, Head(prs)), tuple, Tail(prs))

\* the loop over all_results (lines 552-599): the labels in first-seen order, the
\* retained rows in stream order, and whether a subscript raised
RECURSIVE walk_results(_, _)
walk_results(acc, all_results) ==
    IF all_results = <<>> \/ acc.raised THEN acc
    ELSE LET t == Head(all_results)
             withLabel == IF InList(t.query_label, acc.labels) THEN acc
                          ELSE [acc EXCEPT !.labels = Append(@, t.query_label)]
         IN  walk_results(walk_prs(withLabel, t, t.prs), Tail(all_results))

process_results(all_results) ==
    walk_results([labels |-> <<>>, rows |-> <<>>, seen |-> {}, raised |-> FALSE],
                 all_results)

\* the rows of one query label, in their current order (pr_rows_by_query[label])
rows_of(rows, label) == SelectSeq(rows, LAMBDA r : r.query_label = label)

\* all_pr_rows: the groups' rows laid end to end (lines 602-604)
RECURSIVE flatten(_, _)
flatten(labels, rows) ==
    IF labels = <<>> THEN <<>>
    ELSE rows_of(rows, Head(labels)) \o flatten(Tail(labels), rows)

\* lines 637-638: the resolver's result stored on the row
enrich_row(row, result) ==
    [row EXCEPT !.checks = result.status,
                !.has_reviewer_info = TRUE,
                !.reviewer_info = result.reviewer_info]

\* reclassify handing the classifier no assignees
reclassify_without_assignees(row) ==
    IF row.has_reviewer_info
    THEN LET again == determine_pr_status(
                          [user |-> row.author, assignees |-> <<>>, labels |-> <<>>],
                          row.query_label, row.account_username, row.reviewer_info)
         IN  [row EXCEPT !.priority = again.priority, !.status = again.status]
    ELSE row

\* lines 647-656: the refined classification of an enriched row
reclassify(row) ==
    IF row.has_reviewer_info
    THEN LET again == determine_pr_status(
                          [user |-> row.author, assignees |-> row.assignees,
                           labels |-> <<>>],
                          row.query_label, row.account_username, row.reviewer_info)
         IN  [row EXCEPT !.priority = again.priority, !.status = again.status]
    ELSE row

\* escalate applied to anybody's PR
escalate_any_author(row) ==
    IF row.checks = "failing"
    THEN [row EXCEPT !.priority = HIGH, !.status = "Checks Failing"]
    ELSE row

\* lines 658-661: failing checks on the viewer's own PR
escalate(row) ==
    IF is_my_pr(row.author, row.account_username) /\ row.checks = "failing"
    THEN [row EXCEPT !.priority = HIGH, !.status = "Checks Failing"]
    ELSE row

\* the fields a row keeps after lines 663-668
final_row(row) ==
    [priority |-> row.priority, status |-> row.status, account |-> row.account,
     state |-> row.state, author |-> row.author, age |-> row.age, url |-> row.url,
     key |-> row.key, checks |-> row.checks, query_label |-> row.query_label]

\* one pass of the loop of lines 641-668 over a row
refine_row(row) == final_row(escalate(reclassify(row)))

\* key_less on the priority alone
key_less_by_priority(a, b) == a.priority < b.priority

\* the sort key order of line 672: (priority, age)
key_less(a, b) ==
    \/ a.priority < b.priority
    \/ a.priority = b.priority /\ StrLess(a.age, b.age)

\* list.sort(key=...): stable, by insertion
RECURSIVE insert_sorted(_, _)
insert_sorted(sorted, row) ==
    IF sorted = <<>> THEN <<row>>
    ELSE IF key_less(row, sorted[Len(sorted)])
    THEN Append(insert_sorted(SubSeq(sorted, 1, Len(sorted) - 1), row), sorted[Len(sorted)])
    ELSE Append(sorted, row)

RECURSIVE sort_rows(_)
sort_rows(rows) ==
    IF rows = <<>> THEN <<>>
    ELSE insert_sorted(sort_rows(SubSeq(rows, 1, Len(rows) - 1)), rows[Len(rows)])

\* lines 641-672: every row refined, then every group sorted; the result is the
\* ordered list of (query label, rows) groups
finish_groups(labels, rows) ==
    [g \in DOMAIN labels |->
        [query_label |-> labels[g],
         rows |-> sort_rows([i \in DOMAIN rows_of(rows, labels[g]) |->
                                refine_row(rows_of(rows, labels[g])[i])])]]

-----------------------------------------------------------------------------
(* Input domains *)

AllKeys == {"id"} \cup RowKeys

Authors == {"alice", "Alice", "bob"}
Viewers == {"", "alice", "bob"}
AssigneeLists == {<<>>, <<"Alice">>, <<"bob">>, <<"bob", "alice">>}
LabelLists == {<<>>, << <<"bug">> >>, << <<"WIP">> >>,
               << <<"needs", " ", "Changes">>, <<"bug">> >>, << <<"un", "blocked">> >>}
QueryLabels == {<<"Review", " ", "Requested">>, <<"My", " ", "PRs">>, <<"Approved">>,
                <<"review-requested:@me">>, <<"Assigned">>}
ReviewerLists == {<<>>, <<"alice">>, <<"Alice">>, <<"bob">>, <<"carol", "alice">>}
TeamLists == {<<>>, <<"core">>}
ReviewerInfos ==
    {NoReviewerInfo} \cup
    [given : {TRUE}, requested_reviewers : ReviewerLists, requested_teams : TeamLists]

\* the responses of the PR detail, check-runs and legacy status endpoints
DetailResponses ==
    {[kind |-> k, requested_reviewers |-> <<>>, requested_teams |-> <<>>, sha |-> ""] :
        k \in {"http_error", "raise"}}
    \cup [kind : {"ok"}, requested_reviewers : ReviewerLists, requested_teams : TeamLists,
          sha : {"", "abc123", "def456"}]
CheckRunLists ==
    {<<>>,
     << [status |-> "completed", conclusion |-> "success"] >>,
     << [status |-> "completed", conclusion |-> "success"],
        [status |-> "completed", conclusion |-> "failure"] >>,
     << [status |-> "in_progress", conclusion |-> ""],
        [status |-> "completed", conclusion |-> "timed_out"] >>,
     << [status |-> "queued", conclusion |-> ""],
        [status |-> "completed", conclusion |-> "failure"] >>,
     << [status |-> "completed", conclusion |-> "action_required"] >>,
     << [status |-> "completed", conclusion |-> "success"],
        [status |-> "completed", conclusion |-> "skipped"] >>,
     << [status |-> "completed", conclusion |-> "success"],
        [status |-> "completed", conclusion |-> ""] >>,
     << [status |-> "completed", conclusion |-> "neutral"] >>,
     << [status |-> "completed", conclusion |-> ""] >>}
RunsResponses ==
    {[kind |-> k, check_runs |-> <<>>] : k \in {"http_error", "raise"}}
    \cup [kind : {"ok"}, check_runs : CheckRunLists]
LegacyResponses ==
    {[kind |-> k, state |-> ""] : k \in {"http_error", "raise"}}
    \cup [kind : {"ok"},
          state : {"success", "SUCCESS", "pending", "failure", "error", "unexpected"}]

\* what get_check_status can return for a PR, over all responses
resolutions(pr) ==
    {get_check_status(pr, d, r, l) :
        d \in DetailResponses, r \in RunsResponses, l \in LegacyResponses}

-----------------------------------------------------------------------------
(* SpecClassify: one call of determine_pr_status on any input *)

ClassifyIdle == [called |-> FALSE]
RowIdle == [stage |-> "off"]
ResolveIdle == [stage |-> "off"]
QueriesIdle == [called |-> FALSE]

AppIdle ==
    /\ config = [loaded |-> FALSE, accounts |-> <<>>]
    /\ env = <<>>
    /\ pr_urls = <<>>
    /\ usernames = <<>>
    /\ last_update = 0
    /\ status_bar = ""
    /\ container = <<>>
    /\ mounted = FALSE
    /\ started = 0
    /\ cyc = <<>>
    /\ emitted = <<>>
    /\ notice = <<>>

InitClassify ==
    /\ AppIdle
    /\ rw = RowIdle
    /\ rs = ResolveIdle
    /\ qb = QueriesIdle
    /\ cl \in [called : {FALSE},
               pr : [user : Authors \cup {""}, assignees : AssigneeLists, labels : LabelLists],
               query_label : QueryLabels,
               username : Viewers,
               reviewer_info : ReviewerInfos]

classify ==
    /\ ~cl.called
    /\ cl' = [called |-> TRUE, pr |-> cl.pr, query_label |-> cl.query_label,
              username |-> cl.username, reviewer_info |-> cl.reviewer_info,
              out |-> determine_pr_status(cl.pr, cl.query_label, cl.username,
                                          cl.reviewer_info)]
    /\ UNCHANGED <<appVars, rw, rs, qb>>

NextClassify == classify

SpecClassify == InitClassify /\ [][NextClassify]_vars

-----------------------------------------------------------------------------
(* SpecRow: one search item taken through refresh_data's per-row steps *)

RowPRs ==
    [id : {7}, keys : {AllKeys}, user : Authors, assignees : AssigneeLists,
     labels : {<<>>, << <<"WIP">> >>, << <<"bug">> >>}, draft : {FALSE},
     created_at : {[valid |-> TRUE, days |-> 0, seconds |-> 7200]},
     has_pull_request_url : BOOLEAN]

InitRow ==
    /\ AppIdle
    /\ cl = ClassifyIdle
    /\ rs = ResolveIdle
    /\ qb = QueriesIdle
    /\ rw \in [stage : {"input"}, pr : RowPRs, query_label : QueryLabels,
               username : Viewers]

\* lines 556-599 for the item
row_build ==
    /\ rw.stage = "input"
    /\ LET row == build_row("work", rw.username, rw.query_label, rw.pr)
       IN  rw' = [stage |-> "built", pr |-> rw.pr, query_label |-> rw.query_label,
                  username |-> rw.username, row |-> row,
                  coarse |-> [priority |-> row.priority, status |-> row.status]]
    /\ UNCHANGED <<appVars, cl, rs, qb>>

\* lines 628-638 for the row
row_enrich ==
    /\ rw.stage = "built"
    /\ \E result \in resolutions(rw.pr) :
          rw' = [stage |-> "enriched", pr |-> rw.pr, query_label |-> rw.query_label,
                 username |-> rw.username, coarse |-> rw.coarse,
                 row |-> enrich_row(rw.row, result)]
    /\ UNCHANGED <<appVars, cl, rs, qb>>

\* lines 641-668 for the row
row_refine ==
    /\ rw.stage = "enriched"
    /\ rw' = [stage |-> "final", pr |-> rw.pr, query_label |-> rw.query_label,
              username |-> rw.username, coarse |-> rw.coarse, row |-> rw.row,
              refined |-> reclassify(rw.row),
              final |-> refine_row(rw.row)]
    /\ UNCHANGED <<appVars, cl, rs, qb>>

NextRow == row_build \/ row_enrich \/ row_refine

SpecRow == InitRow /\ [][NextRow]_vars

-----------------------------------------------------------------------------
(* The application: configuration, environment and the platform's answers *)

MaxCycles == 3   \* refresh_data coroutines started in one behaviour
MaxItems == 2    \* items in one search response

WorkAccount ==
    [label |-> "work", token_env_var |-> "GH_WORK",
     filters |-> [scope |-> "all", repos |-> <<>>, has_queries |-> TRUE,
                  queries |-> << [label |-> <<"Review", " ", "Requested">>,
                                  query |-> <<"is:pr", " ", "review-requested:@me">>],
                                 [label |-> <<"My", " ", "PRs">>,
                                  query |-> <<"is:pr", " ", "author:@me">>] >>]]
HomeAccount ==
    [label |-> "home", token_env_var |-> "GH_HOME",
     filters |-> [scope |-> "specific", repos |-> <<"o/r">>, has_queries |-> FALSE,
                  queries |-> <<>>]]
BareAccount ==
    [label |-> "bare", token_env_var |-> "",
     filters |-> [scope |-> "all", repos |-> <<>>, has_queries |-> FALSE,
                  queries |-> <<>>]]

\* os.environ: GH_WORK is always set, GH_HOME may be empty
Environments ==
    {[v \in {"GH_WORK", "GH_HOME"} |-> IF v = "GH_WORK" THEN "t-work" ELSE t] :
        t \in {"", "t-home"}}

\* the login the platform knows a token by
login_of(token) == IF token = "t-work" THEN "alice" ELSE "bob"

\* the empty dict
EmptyMap == <<>>

\* d[k] = v on a dict
Put(d, k, v) == [x \in DOMAIN d \cup {k} |-> IF x = k THEN v ELSE d[x]]

\* account.get("label", ...)
label_of(account) == account.label

\* credential taking any named variable to hold a token
credential_assumed(account, environ) ==
    IF account.token_env_var = "" THEN ""
    ELSE IF environ[account.token_env_var] = "" THEN "t-none"
    ELSE environ[account.token_env_var]

\* lines 343-354: the token of an account, "" when the variable is unset or empty
credential(account, environ) ==
    IF account.token_env_var = "" THEN "" ELSE environ[account.token_env_var]

\* a cache that keeps no login
remember_nothing(cache, token_env_var, username) == cache

\* line 210: self.usernames[token_env_var] = username
remember_username(cache, token_env_var, username) == Put(cache, token_env_var, username)

-----------------------------------------------------------------------------
(* refresh_data as a coroutine: its local state and its steps between awaits *)

\* the coroutines that may be alive at once are kept in two slots
Slots == {1, 2}

IdleCycle ==
    [pc |-> "idle", kind |-> "", a |-> 0, q |-> 0, queries |-> <<>>, username |-> "",
     results |-> <<>>, labels |-> <<>>, rows |-> <<>>, r |-> 0, groups |-> <<>>,
     g |-> 0, total |-> 0, notes |-> <<>>, calls |-> <<>>]

Free(s) == cyc[s].pc \in {"idle", "returned", "done", "aborted"}
InFlight(s) == ~Free(s)
FreeSlot == CHOOSE s \in Slots : Free(s) /\ \A t \in Slots : Free(t) => s <= t

\* begin_cycle without the guard of lines 531-532
begin_cycle_without_guard(s, kind, accounts) ==
    /\ started' = started + 1
    /\ cyc' = [cyc EXCEPT ![s] = [IdleCycle EXCEPT !.pc = "account", !.kind = kind, !.a = 1]]
    /\ pr_urls' = EmptyMap
    /\ status_bar' = <<"Fetching PRs...">>

\* lines 531-540: the guard, pr_urls.clear() and the status line
begin_cycle(s, kind, accounts) ==
    /\ started' = started + 1
    /\ IF accounts = <<>>
       THEN /\ cyc' = [cyc EXCEPT ![s] = [IdleCycle EXCEPT !.pc = "returned", !.kind = kind]]
            /\ UNCHANGED <<pr_urls, status_bar>>
       ELSE /\ cyc' = [cyc EXCEPT ![s] = [IdleCycle EXCEPT !.pc = "account", !.kind = kind,
                                                            !.a = 1]]
            /\ pr_urls' = EmptyMap
            /\ status_bar' = <<"Fetching PRs...">>

\* on_mount: load_config, the initial fetch, the timer
on_mount(Configs) ==
    /\ ~mounted
    /\ mounted' = TRUE
    /\ \E accounts \in Configs :
          /\ config' = [loaded |-> TRUE, accounts |-> accounts]
          /\ begin_cycle(1, "worker", accounts)
    /\ UNCHANGED <<env, usernames, last_update, container, emitted, notice, cl, rw, rs, qb>>

\* the interval timer calling refresh_data; a tick whose predecessor's cycle is
\* still running is not stacked on it
timer_tick ==
    /\ mounted
    /\ started < MaxCycles
    /\ \E s \in Slots : Free(s)
    /\ \A s \in Slots : InFlight(s) => cyc[s].kind # "timer"
    /\ begin_cycle(FreeSlot, "timer", config.accounts)
    /\ UNCHANGED <<config, env, usernames, last_update, container, mounted, emitted, notice, cl, rw, rs, qb>>

\* action_refresh: run_worker(self.refresh_data())
action_refresh ==
    /\ mounted
    /\ started < MaxCycles
    /\ \E s \in Slots : Free(s)
    /\ begin_cycle(FreeSlot, "worker", config.accounts)
    /\ UNCHANGED <<config, env, usernames, last_update, container, mounted, emitted, notice, cl, rw, rs, qb>>

\* after a query: the next query of the account, or the next account
next_query(c) ==
    IF c.q > Len(c.queries)
    THEN [c EXCEPT !.pc = "account", !.a = @ + 1, !.q = 0, !.queries = <<>>, !.username = ""]
    ELSE c

\* fetch_prs up to its first request (lines 339-361)
fetch_begin(s) ==
    /\ cyc[s].pc = "account"
    /\ cyc[s].a <= Len(config.accounts)
    /\ LET c == cyc[s]
           account == config.accounts[c.a]
       IN  IF credential(account, env) = ""
           THEN cyc' = [cyc EXCEPT ![s] =
                           [c EXCEPT !.a = @ + 1,
                                     !.notes = Append(@, [severity |-> "warning",
                                                          account |-> label_of(account),
                                                          query_label |-> <<>>])]]
           ELSE IF account.token_env_var \in DOMAIN usernames
           THEN cyc' = [cyc EXCEPT ![s] =
                           next_query([c EXCEPT !.pc = "search", !.q = 1,
                                                !.queries = build_queries(account),
                                                !.username = usernames[account.token_env_var]])]
           ELSE cyc' = [cyc EXCEPT ![s] =
                           [c EXCEPT !.pc = "user", !.queries = build_queries(account),
                                     !.calls = Append(@, [endpoint |-> "user",
                                                          account |-> label_of(account),
                                                          query_label |-> <<>>,
                                                          reply |-> [kind |-> "sent"]])]]
    /\ UNCHANGED <<config, env, pr_urls, usernames, last_update, status_bar, container,
                   mounted, started, emitted, notice, cl, rw, rs, qb>>

\* get_authenticated_user after its request (lines 206-215)
user_reply(s) ==
    /\ cyc[s].pc = "user"
    /\ LET c == cyc[s]
           account == config.accounts[c.a]
           login == login_of(credential(account, env))
       IN  \E kind \in {"ok", "http_error", "raise"} :
              IF kind = "ok"
              THEN /\ usernames' = remember_username(usernames, account.token_env_var, login)
                   /\ cyc' = [cyc EXCEPT ![s] =
                                 next_query([c EXCEPT
                                    !.pc = "search", !.q = 1, !.username = login,
                                    !.calls[Len(c.calls)].reply =
                                        [kind |-> "ok",
                                         token_env_var |-> account.token_env_var,
                                         login |-> login]])]
              ELSE /\ UNCHANGED usernames
                   /\ cyc' = [cyc EXCEPT ![s] =
                                 next_query([c EXCEPT
                                    !.pc = "search", !.q = 1, !.username = "",
                                    !.calls[Len(c.calls)].reply = [kind |-> "failed"]])]
    /\ UNCHANGED <<config, env, pr_urls, last_update, status_bar, container,
                   mounted, started, emitted, notice, cl, rw, rs, qb>>

\* the search responses: items or a failure
SearchReplies(Lists) ==
    [kind : {"ok"}, items : Lists]
    \cup {[kind |-> k, items |-> <<>>] : k \in {"http_error", "raise"}}

\* lines 379-401: what one query adds to results
append_result_dropping_failures(results, account_label, username, query_label, reply) ==
    IF reply.kind = "ok"
    THEN Append(results, [account_label |-> account_label, username |-> username,
                          query_label |-> query_label, prs |-> reply.items])
    ELSE results

append_result(results, account_label, username, query_label, reply) ==
    Append(results, [account_label |-> account_label, username |-> username,
                     query_label |-> query_label,
                     prs |-> IF reply.kind = "ok" THEN reply.items ELSE <<>>])

\* lines 384-401: the notification of a failed query
query_notes(notes, account_label, query_label, reply) ==
    IF reply.kind = "ok" THEN notes
    ELSE Append(notes, [severity |-> "error", account |-> account_label,
                        query_label |-> query_label])

\* one pass of the loop over queries (lines 372-401)
search_reply(s, Lists) ==
    /\ cyc[s].pc = "search"
    /\ LET c == cyc[s]
           account == config.accounts[c.a]
           query == c.queries[c.q]
       IN  \E reply \in SearchReplies(Lists) :
              cyc' = [cyc EXCEPT ![s] =
                         next_query([c EXCEPT
                            !.q = @ + 1,
                            !.results = append_result(@, label_of(account), c.username,
                                                      query.label, reply),
                            !.notes = query_notes(@, label_of(account), query.label, reply),
                            !.calls = Append(@, [endpoint |-> "search",
                                                 account |-> label_of(account),
                                                 query_label |-> query.label,
                                                 reply |-> reply])])]
    /\ UNCHANGED <<config, env, pr_urls, usernames, last_update, status_bar, container,
                   mounted, started, emitted, notice, cl, rw, rs, qb>>

\* account_creds (lines 609-624): the labels of the accounts with a token
account_creds(accounts, environ) ==
    {label_of(accounts[i]) : i \in {j \in DOMAIN accounts : credential(accounts[j], environ) # ""}}

\* lines 548-604 and, when nothing was retained, 641-672
process(s) ==
    /\ cyc[s].pc = "account"
    /\ cyc[s].a > Len(config.accounts)
    /\ LET c == cyc[s]
           acc == process_results(c.results)
           all_pr_rows == flatten(acc.labels, acc.rows)
       IN  cyc' = [cyc EXCEPT ![s] =
                      IF acc.raised THEN [c EXCEPT !.pc = "aborted"]
                      ELSE IF all_pr_rows = <<>>
                      THEN [c EXCEPT !.pc = "remove", !.labels = acc.labels,
                                     !.groups = finish_groups(acc.labels, <<>>)]
                      ELSE [c EXCEPT !.pc = "enrich", !.labels = acc.labels,
                                     !.rows = all_pr_rows, !.r = 1]]
    /\ UNCHANGED <<config, env, pr_urls, usernames, last_update, status_bar, container,
                   mounted, started, emitted, notice, cl, rw, rs, qb>>

\* after a row's enrichment: the next row, or lines 641-672
next_row(c) ==
    IF c.r > Len(c.rows)
    THEN [c EXCEPT !.pc = "remove", !.groups = finish_groups(c.labels, c.rows),
                   !.rows = <<>>, !.r = 0]
    ELSE c

\* what the platform answered to a request of get_check_status, t being the
\* <<detail, check-runs, legacy status>> responses
answer_to(endpoint, t) ==
    CASE endpoint = "detail" -> t[1].kind
      [] endpoint = "check-runs" -> t[2].kind
      [] endpoint = "status" -> t[3].kind

\* one pass of the loop of lines 628-638; Answers holds the <<detail, check-runs,
\* legacy status>> responses the platform may give for a row
enrich(s, Answers) ==
    /\ cyc[s].pc = "enrich"
    /\ LET c == cyc[s]
           row == c.rows[c.r]
       IN  IF row.account \in account_creds(config.accounts, env)
           THEN \E t \in Answers :
                   LET result == get_check_status(row.pr, t[1], t[2], t[3])
                   IN  cyc' = [cyc EXCEPT ![s] =
                                  next_row([c EXCEPT
                                     !.r = @ + 1,
                                     !.rows[c.r] = enrich_row(row, result),
                                     !.calls = @ \o [i \in DOMAIN result.calls |->
                                        [endpoint |-> result.calls[i].endpoint,
                                         account |-> row.account,
                                         query_label |-> row.query_label,
                                         reply |-> [kind |-> "row", key |-> row.key,
                                                    answer |-> answer_to(
                                                        result.calls[i].endpoint, t)]]]])]
           ELSE cyc' = [cyc EXCEPT ![s] = next_row([c EXCEPT !.r = @ + 1])]
    /\ UNCHANGED <<config, env, pr_urls, usernames, last_update, status_bar, container,
                   mounted, started, emitted, notice, cl, rw, rs, qb>>

\* the index of the first non-empty group from g on, 0 when there is none
next_group(groups, g) ==
    IF \E i \in g..Len(groups) : groups[i].rows # <<>>
    THEN CHOOSE i \in g..Len(groups) :
            groups[i].rows # <<>> /\ \A j \in g..(i - 1) : groups[j].rows = <<>>
    ELSE 0

\* self.pr_urls[row["key"]] = row["url"] for the rows of a section (line 715)
RECURSIVE store_urls(_, _)
store_urls(urls, rows) ==
    IF rows = <<>> THEN urls
    ELSE store_urls(Put(urls, Head(rows).key, Head(rows).url), Tail(rows))

\* the groups a cycle has put on screen: the non-empty ones, in order
shown_groups(groups) == SelectSeq(groups, LAMBDA grp : grp.rows # <<>>)

\* lines 680-727 from group g on, up to the next await or the end
render_from(s, g, shown) ==
    LET c == cyc[s]
        i == next_group(c.groups, g)
    IN  IF i # 0
        THEN /\ pr_urls' = store_urls(pr_urls, c.groups[i].rows)
             /\ container' = Append(shown, c.groups[i])
             /\ cyc' = [cyc EXCEPT ![s] = [c EXCEPT !.pc = "mount", !.g = i + 1,
                                                     !.total = @ + Len(c.groups[i].rows)]]
             /\ UNCHANGED <<last_update, status_bar, emitted>>
        ELSE /\ last_update' = last_update + 1
             /\ status_bar' = <<"PRs", c.total, "Last updated", last_update + 1>>
             /\ emitted' = [groups |-> shown_groups(c.groups), total |-> c.total,
                            stamp |-> last_update + 1]
             /\ container' = shown
             /\ cyc' = [cyc EXCEPT ![s] = [c EXCEPT !.pc = "done"]]
             /\ UNCHANGED pr_urls

\* await main_container.remove_children() and what follows it
remove_children(s) ==
    /\ cyc[s].pc = "remove"
    /\ render_from(s, 1, <<>>)
    /\ UNCHANGED <<config, env, usernames, mounted, started, notice, cl, rw, rs, qb>>

\* await main_container.mount(section) and what follows it
mount_done(s) ==
    /\ cyc[s].pc = "mount"
    /\ render_from(s, cyc[s].g, container)
    /\ UNCHANGED <<config, env, usernames, mounted, started, notice, cl, rw, rs, qb>>

\* action_open_pr (lines 733-773): the key of the row under the cursor is looked
\* up in pr_urls; without a table there is no row to select
action_open_pr ==
    /\ mounted
    /\ IF container = <<>>
       THEN notice' = <<"No PR selected">>
       ELSE \E g \in DOMAIN container :
               \E i \in DOMAIN container[g].rows :
                  LET actual_key == container[g].rows[i].key
                  IN  notice' = IF actual_key \in DOMAIN pr_urls
                                THEN <<"Opening:", pr_urls[actual_key]>>
                                ELSE <<"URL not found for selected PR">>
    /\ UNCHANGED <<config, env, pr_urls, usernames, last_update, status_bar, container,
                   mounted, started, cyc, emitted, cl, rw, rs, qb>>

-----------------------------------------------------------------------------
(* Spec: the application with its triggers; cycles may run side by side *)

\* search items
OwnPR ==
    [id |-> 1, keys |-> AllKeys, user |-> "alice", assignees |-> <<>>,
     labels |-> << <<"WIP">> >>, draft |-> FALSE,
     created_at |-> [valid |-> TRUE, days |-> 0, seconds |-> 7200],
     has_pull_request_url |-> TRUE]
AssignedPR ==
    [id |-> 2, keys |-> AllKeys, user |-> "bob", assignees |-> <<"Alice">>,
     labels |-> <<>>, draft |-> TRUE,
     created_at |-> [valid |-> TRUE, days |-> 0, seconds |-> 36000],
     has_pull_request_url |-> TRUE]
TwinPR ==
    [id |-> 4, keys |-> AllKeys, user |-> "alice", assignees |-> <<>>,
     labels |-> <<>>, draft |-> FALSE,
     created_at |-> [valid |-> TRUE, days |-> 0, seconds |-> 7200],
     has_pull_request_url |-> TRUE]
UntitledPR ==
    [id |-> 3, keys |-> AllKeys \ {"title"}, user |-> "bob", assignees |-> <<>>,
     labels |-> <<>>, draft |-> FALSE,
     created_at |-> [valid |-> TRUE, days |-> 3, seconds |-> 0],
     has_pull_request_url |-> TRUE]

\* what the three endpoints answer for a row in the application specifications
DetailDown ==
    [kind |-> "http_error", requested_reviewers |-> <<>>, requested_teams |-> <<>>, sha |-> ""]
DetailViewer ==
    [kind |-> "ok", requested_reviewers |-> <<"alice">>, requested_teams |-> <<>>,
     sha |-> "abc123"]
DetailTeam ==
    [kind |-> "ok", requested_reviewers |-> <<>>, requested_teams |-> <<"core">>,
     sha |-> "abc123"]
RunsFailed ==
    [kind |-> "ok", check_runs |-> << [status |-> "completed", conclusion |-> "failure"] >>]
RunsNone == [kind |-> "ok", check_runs |-> <<>>]
LegacyGreen == [kind |-> "ok", state |-> "success"]

FewAnswers ==
    {<<DetailDown, RunsNone, LegacyGreen>>,
     <<DetailViewer, RunsFailed, LegacyGreen>>,
     <<DetailTeam, RunsNone, LegacyGreen>>}
OneAnswer == {<<DetailViewer, RunsFailed, LegacyGreen>>}

SmallConfigs == {<<>>, <<HomeAccount>>, <<BareAccount, HomeAccount>>}
SmallLists == {<<>>, <<OwnPR>>}

Init ==
    /\ config = [loaded |-> FALSE, accounts |-> <<>>]
    /\ env \in Environments
    /\ pr_urls = EmptyMap
    /\ usernames = EmptyMap
    /\ last_update = 0
    /\ status_bar = <<>>
    /\ container = <<>>
    /\ mounted = FALSE
    /\ started = 0
    /\ cyc = [s \in Slots |-> IdleCycle]
    /\ emitted = [groups |-> <<>>, total |-> 0, stamp |-> 0]
    /\ notice = <<>>
    /\ cl = ClassifyIdle
    /\ rw = RowIdle
    /\ rs = ResolveIdle
    /\ qb = QueriesIdle

Next ==
    \/ on_mount(SmallConfigs)
    \/ action_refresh
    \/ timer_tick
    \/ action_open_pr
    \/ \E s \in Slots :
          \/ fetch_begin(s)
          \/ user_reply(s)
          \/ search_reply(s, SmallLists)
          \/ process(s)
          \/ enrich(s, OneAnswer)
          \/ remove_children(s)
          \/ mount_done(s)

Spec == Init /\ [][Next]_vars

-----------------------------------------------------------------------------
(* SpecCycle: the initial refresh cycle alone, over richer answers *)

RECURSIVE SeqsUpTo(_, _)
SeqsUpTo(S, n) ==
    IF n = 0 THEN {<<>>}
    ELSE SeqsUpTo(S, n - 1) \cup {Append(t, x) : t \in {u \in SeqsUpTo(S, n - 1) : Len(u) = n - 1}, x \in S}

CycleConfigs ==
    {<<>>, <<WorkAccount, HomeAccount>>, <<BareAccount, WorkAccount>>}
CycleLists ==
    SeqsUpTo({OwnPR, AssignedPR}, MaxItems) \cup {<<UntitledPR>>, <<OwnPR, UntitledPR>>}

\* the answers a row's resolution gets in SpecCycle
CycleAnswers ==
    {<<DetailDown, RunsNone, LegacyGreen>>, <<DetailViewer, RunsFailed, LegacyGreen>>}

NextCycle ==
    \/ on_mount(CycleConfigs)
    \/ fetch_begin(1)
    \/ user_reply(1)
    \/ search_reply(1, CycleLists)
    \/ process(1)
    \/ enrich(1, CycleAnswers)
    \/ remove_children(1)
    \/ mount_done(1)

SpecCycle == Init /\ [][NextCycle]_vars

-----------------------------------------------------------------------------
(* SpecOrder: the initial cycle of one account with two queries, over items of *)
(* equal and of different age                                                 *)

OrderConfigs == {<<WorkAccount>>}
OrderLists ==
    SeqsUpTo({OwnPR, AssignedPR, TwinPR}, MaxItems) \cup {<<TwinPR, OwnPR, AssignedPR>>}

NextOrder ==
    \/ on_mount(OrderConfigs)
    \/ fetch_begin(1)
    \/ user_reply(1)
    \/ search_reply(1, OrderLists)
    \/ process(1)
    \/ enrich(1, FewAnswers)
    \/ remove_children(1)
    \/ mount_done(1)

SpecOrder == Init /\ [][NextOrder]_vars

-----------------------------------------------------------------------------
(* SpecCalls: the initial cycle of one account, over failing searches and *)
(* failing requests of the resolver                                       *)

RunsRaise == [kind |-> "raise", check_runs |-> <<>>]
LegacyDown == [kind |-> "http_error", state |-> ""]

CallAnswers ==
    FewAnswers \cup {<<DetailViewer, RunsRaise, LegacyGreen>>,
                     <<DetailTeam, RunsNone, LegacyDown>>}
CallConfigs == {<<WorkAccount>>}
CallLists == SeqsUpTo({OwnPR, AssignedPR}, MaxItems)

NextCalls ==
    \/ on_mount(CallConfigs)
    \/ fetch_begin(1)
    \/ user_reply(1)
    \/ search_reply(1, CallLists)
    \/ process(1)
    \/ enrich(1, CallAnswers)
    \/ remove_children(1)
    \/ mount_done(1)

SpecCalls == Init /\ [][NextCalls]_vars

-----------------------------------------------------------------------------
(* SpecResolve: get_check_status run twice on one script of client responses, *)
(* with the resolution of another row between the two runs                    *)

ResolvePRs ==
    [has_pull_request_url : BOOLEAN, keys : {AllKeys, AllKeys \ {"repository_url"}}]

InitResolve ==
    /\ AppIdle
    /\ cl = ClassifyIdle
    /\ rw = RowIdle
    /\ qb = QueriesIdle
    /\ rs \in [stage : {"input"}, pr : ResolvePRs, detail : DetailResponses,
               runs : RunsResponses, legacy : LegacyResponses]

\* await self.get_check_status(pr, headers, client) on the script
resolve_first ==
    /\ rs.stage = "input"
    /\ rs' = [first |-> get_check_status(rs.pr, rs.detail, rs.runs, rs.legacy)]
             @@ [rs EXCEPT !.stage = "first"]
    /\ UNCHANGED <<appVars, cl, rw, qb>>

\* the same coroutine called for another row (the loop of lines 628-638)
resolve_other ==
    /\ rs.stage = "first"
    /\ \E t \in FewAnswers :
          rs' = [other |-> get_check_status(OwnPR, t[1], t[2], t[3])]
                @@ [rs EXCEPT !.stage = "other"]
    /\ UNCHANGED <<appVars, cl, rw, qb>>

\* get_check_status on the first script again
resolve_second ==
    /\ rs.stage = "other"
    /\ rs' = [second |-> get_check_status(rs.pr, rs.detail, rs.runs, rs.legacy)]
             @@ [rs EXCEPT !.stage = "second"]
    /\ UNCHANGED <<appVars, cl, rw, qb>>

NextResolve == resolve_first \/ resolve_other \/ resolve_second

SpecResolve == InitResolve /\ [][NextResolve]_vars

-----------------------------------------------------------------------------
(* SpecQueries: one call of build_queries on any filter configuration *)

MaxQueries == 2   \* entries in one configured queries list

QueryConfigs ==
    {[label |-> <<"My", " ", "PRs">>, query |-> <<"is:pr", " ", "author:@me">>],
     [label |-> <<"Approved">>, query |-> <<"is:pr", " ", " ", "review:approved">>],
     [label |-> <<"Review", " ", "Requested">>, query |-> <<"review-requested:@me">>]}

\* filters: "queries" absent, or present with a list that may be empty
QueryFilters ==
    {f \in [scope : {"all", "specific"},
            repos : {<<>>, <<"o/r">>, <<"o/r", "o/s">>},
            has_queries : BOOLEAN,
            queries : SeqsUpTo(QueryConfigs, MaxQueries)] :
        f.has_queries \/ f.queries = <<>>}

InitQueries ==
    /\ AppIdle
    /\ cl = ClassifyIdle
    /\ rw = RowIdle
    /\ rs = ResolveIdle
    /\ qb \in [called : {FALSE},
               account : [label : {"work"}, token_env_var : {"GH_WORK"},
                          filters : QueryFilters]]

\* queries = self.build_queries(account)
build ==
    /\ ~qb.called
    /\ qb' = [called |-> TRUE, account |-> qb.account, out |-> build_queries(qb.account)]
    /\ UNCHANGED <<appVars, cl, rw, rs>>

NextQueries == build

SpecQueries == InitQueries /\ [][NextQueries]_vars

-----------------------------------------------------------------------------
(* Claims about the classifier (SpecClassify) *)

\* the signals of the decision table, for the call in cl
ViewerAssigned == is_assigned(cl.pr.assignees, cl.username)
ViewerRequested == InList(cl.username, cl.reviewer_info.requested_reviewers)
TeamsRequested == cl.reviewer_info.requested_teams # <<>>
ViewerIsAuthor == is_my_pr(cl.pr.user, cl.username)
ReviewSearch == is_review_request_query(cl.query_label)

\* the eight rules, first match wins
DecisionTable(individual, assigned, team, author, changes, approved) ==
    CASE individual /\ assigned -> [priority |-> HIGH, status |-> "Action Needed"]
      [] individual /\ ~assigned -> [priority |-> HIGH, status |-> "Review"]
      [] ~individual /\ assigned -> [priority |-> HIGH, status |-> "Assigned"]
      [] ~individual /\ ~assigned /\ team -> [priority |-> MEDIUM, status |-> "Team Review"]
      [] ~individual /\ ~assigned /\ ~team /\ author /\ changes ->
            [priority |-> MEDIUM, status |-> "Changes Needed"]
      [] ~individual /\ ~assigned /\ ~team /\ author /\ ~changes /\ approved ->
            [priority |-> LOW, status |-> "Approved"]
      [] ~individual /\ ~assigned /\ ~team /\ author /\ ~changes /\ ~approved ->
            [priority |-> LOW, status |-> "Waiting"]
      [] OTHER -> [priority |-> LOW, status |-> "Watching"]

\* C6 as stated: with reviewer info supplied, classify returns the first matching
\* rule of the decision table whatever the query label (the viewer listed among
\* the requested reviewers counts as individually requested, requested teams as a
\* team request).
C6_TableWhateverQuery ==
    (cl.called /\ cl.reviewer_info.given) =>
        cl.out = DecisionTable(ViewerRequested, ViewerAssigned,
                               TeamsRequested /\ ~ViewerRequested, ViewerIsAuthor,
                               has_change_label(cl.pr.labels),
                               InText(<<"approved">>, LowerText(cl.query_label)))

\* C6 amended: with reviewer info supplied, classify returns the first matching
\* rule of the decision table, the individual and team requests being read from
\* the reviewer info only when the query label indicates a review-request
\* search; under any other query label both are false.
C6_TableOnReviewSearch ==
    (cl.called /\ cl.reviewer_info.given) =>
        cl.out = DecisionTable(ReviewSearch /\ ViewerRequested, ViewerAssigned,
                               ReviewSearch /\ TeamsRequested /\ ~ViewerRequested,
                               ViewerIsAuthor,
                               has_change_label(cl.pr.labels),
                               InText(<<"approved">>, LowerText(cl.query_label)))

\* C6 witness: a call with reviewer info in which the team rule decides
C6_Witness ==
    /\ cl.called
    /\ cl.reviewer_info.given
    /\ cl.reviewer_info.requested_reviewers # <<>>
    /\ cl.out = [priority |-> MEDIUM, status |-> "Team Review"]

\* C7: without reviewer info, a review-request query label gives (HIGH, "Action
\* Needed") when the viewer is an assignee and (HIGH, "Review") otherwise; any
\* other query label never gives a result of the individual or team rules.
C7_CoarseFallback ==
    (cl.called /\ ~cl.reviewer_info.given) =>
        /\ ReviewSearch =>
              cl.out = IF ViewerAssigned
                       THEN [priority |-> HIGH, status |-> "Action Needed"]
                       ELSE [priority |-> HIGH, status |-> "Review"]
        /\ ~ReviewSearch => cl.out.status \notin {"Action Needed", "Review", "Team Review"}

\* C7 witness: the fallback fires for an assigned viewer
C7_Witness ==
    /\ cl.called
    /\ ~cl.reviewer_info.given
    /\ ReviewSearch
    /\ ViewerAssigned
    /\ cl.out = [priority |-> HIGH, status |-> "Action Needed"]

-----------------------------------------------------------------------------
(* Claims about a row's classification through a cycle (SpecRow) *)

RowMine == is_my_pr(rw.row.author, rw.username)
RowFailing == rw.row.checks = "failing"

\* C3 as stated: a row whose coarse classification is HIGH ends the cycle HIGH.
C3_CoarseHighStaysHigh ==
    (rw.stage = "final" /\ rw.coarse.priority = HIGH) => rw.final.priority = HIGH

\* C3 amended: a row whose coarse classification is HIGH ends the cycle HIGH if
\* the viewer is one of its assignees, or the resolved reviewer info lists the
\* viewer, or it is the viewer's own PR with failing checks.  (Any other coarse
\* HIGH rests on the query label alone and is replaced by the refined result.)
C3_HighKeptWhenBacked ==
    (/\ rw.stage = "final"
     /\ rw.coarse.priority = HIGH
     /\ \/ is_assigned(rw.pr.assignees, rw.username)
        \/ rw.username # "" /\ InList(rw.username, rw.row.reviewer_info.requested_reviewers)
        \/ RowMine /\ RowFailing)
    => rw.final.priority = HIGH

\* C3 witness: an assigned row from another query, HIGH before and after
C3_Witness ==
    /\ rw.stage = "final"
    /\ rw.coarse = [priority |-> HIGH, status |-> "Assigned"]
    /\ rw.row.reviewer_info.requested_teams # <<>>
    /\ rw.final.priority = HIGH
    /\ rw.final.status = "Assigned"

\* C4: a row of the viewer's own PR with failing checks ends as (HIGH, "Checks
\* Failing"); every other row ends with the priority and label of the refined
\* classification.
C4_ChecksFailingEscalation ==
    rw.stage = "final" =>
        /\ (RowMine /\ RowFailing) =>
              (rw.final.priority = HIGH /\ rw.final.status = "Checks Failing")
        /\ ~(RowMine /\ RowFailing) =>
              (rw.final.priority = rw.refined.priority /\ rw.final.status = rw.refined.status)

\* C4 witness: the viewer's own PR, refined as LOW, escalated by failing checks
C4_Witness ==
    /\ rw.stage = "final"
    /\ RowMine
    /\ RowFailing
    /\ rw.refined.priority = LOW
    /\ rw.final = [rw.final EXCEPT !.priority = HIGH, !.status = "Checks Failing"]

\* C5: a row whose checks are not failing ends with the classification of its
\* full signal set: author, assignees, label names, query label, viewer login
\* and resolved reviewer info.
C5_RefinedUsesFullSignals ==
    (rw.stage = "final" /\ ~RowFailing) =>
        LET full == determine_pr_status(
                        [user |-> rw.pr.user, assignees |-> rw.pr.assignees,
                         labels |-> rw.pr.labels],
                        rw.query_label, rw.username, rw.row.reviewer_info)
        IN  rw.final.priority = full.priority /\ rw.final.status = full.status

-----------------------------------------------------------------------------
(* Claims about a refresh cycle (SpecCycle) and about scheduling (Spec) *)

\* the platform id of a row (the id part of its key)
RowId(row) == row.key[3]

\* the rows of a list of groups, laid end to end
RECURSIVE GroupRows(_)
GroupRows(groups) ==
    IF groups = <<>> THEN <<>> ELSE Head(groups).rows \o GroupRows(Tail(groups))

\* the flattened stream of a cycle: each search item with its tuple's labels
RECURSIVE Stream(_)
Stream(results) ==
    IF results = <<>> THEN <<>>
    ELSE [i \in DOMAIN Head(results).prs |->
             [id |-> Head(results).prs[i].id,
              account |-> Head(results).account_label,
              query_label |-> Head(results).query_label]]
         \o Stream(Tail(results))

\* the cycle in slot s has all its search results
FetchOver(s) ==
    \/ cyc[s].pc \in {"enrich", "remove", "mount", "done", "aborted"}
    \/ cyc[s].pc = "account" /\ cyc[s].a > Len(config.accounts)

\* C1: in the snapshot of a finished cycle no two rows share a platform id, every
\* id of the stream has its row, and the row carries the query label and the
\* account label of the id's first occurrence in the stream.
C1_DedupFirstWins ==
    \A s \in Slots :
        cyc[s].pc = "done" =>
            LET rows == GroupRows(cyc[s].groups)
                st == Stream(cyc[s].results)
            IN  /\ \A i, j \in DOMAIN rows : i # j => RowId(rows[i]) # RowId(rows[j])
                /\ \A k \in DOMAIN st : \E i \in DOMAIN rows : RowId(rows[i]) = st[k].id
                /\ \A i \in DOMAIN rows :
                      \E k \in DOMAIN st :
                         /\ st[k].id = RowId(rows[i])
                         /\ \A m \in 1..(k - 1) : st[m].id # st[k].id
                         /\ rows[i].account = st[k].account
                         /\ rows[i].query_label = st[k].query_label

\* C1 witness: a finished cycle whose stream held one id under two accounts and
\* another id twice in one response
C1_Witness ==
    \E s \in Slots :
        /\ cyc[s].pc = "done"
        /\ LET st == Stream(cyc[s].results)
           IN  /\ \E k, m \in DOMAIN st :
                     k < m /\ st[k].id = st[m].id /\ st[k].account # st[m].account
               /\ \E i \in DOMAIN cyc[s].results :
                     /\ Len(cyc[s].results[i].prs) = 2
                     /\ cyc[s].results[i].prs[1].id = cyc[s].results[i].prs[2].id

\* C2: at most one refresh cycle is between its start and its emit step.
C2_NoOverlap == Cardinality({s \in Slots : InFlight(s)}) <= 1

\* C8: no started cycle is aborted: each goes on to its emit step.
C8_NoCycleAborts == \A s \in Slots : cyc[s].pc # "aborted"

\* an account without a usable credential
LacksCredential(account) ==
    account.token_env_var = "" \/ env[account.token_env_var] = ""

\* the (account label, query label) pairs of the queries of the accounts that
\* have a credential, in configuration and query order
RECURSIVE QueryPlan(_)
QueryPlan(accounts) ==
    IF accounts = <<>> THEN <<>>
    ELSE (IF LacksCredential(Head(accounts)) THEN <<>>
          ELSE [i \in DOMAIN build_queries(Head(accounts)) |->
                   [account |-> Head(accounts).label,
                    query_label |-> build_queries(Head(accounts))[i].label]])
         \o QueryPlan(Tail(accounts))

SearchCalls(c) == SelectSeq(c.calls, LAMBDA call : call.endpoint = "search")
NotesAbout(c, account, query_label) ==
    SelectSeq(c.notes, LAMBDA n : n.account = account /\ n.query_label = query_label)

\* C9: once a cycle's fetch is over, its results hold exactly one tuple per query
\* of each account with a credential, in query order; the tuple of a query holds
\* the items its search call returned, or no items and one notification when the
\* call failed, whatever the other calls returned; the tuples of one account
\* carry one username.
C9_OneTuplePerQuery ==
    \A s \in Slots :
        FetchOver(s) =>
            LET c == cyc[s]
                calls == SearchCalls(c)
            IN  /\ [i \in DOMAIN c.results |->
                       [account |-> c.results[i].account_label,
                        query_label |-> c.results[i].query_label]]
                   = QueryPlan(config.accounts)
                /\ Len(calls) = Len(c.results)
                /\ \A i \in DOMAIN c.results :
                      /\ calls[i].account = c.results[i].account_label
                      /\ calls[i].query_label = c.results[i].query_label
                      /\ c.results[i].prs =
                            IF calls[i].reply.kind = "ok" THEN calls[i].reply.items ELSE <<>>
                      /\ Len(NotesAbout(c, calls[i].account, calls[i].query_label)) =
                            IF calls[i].reply.kind = "ok" THEN 0 ELSE 1
                /\ \A i, j \in DOMAIN c.results :
                      c.results[i].account_label = c.results[j].account_label =>
                          c.results[i].username = c.results[j].username

\* C9 witness: the first query of an account failed and its second returned items
C9_Witness ==
    \E s \in Slots :
        /\ FetchOver(s)
        /\ Len(cyc[s].results) >= 2
        /\ SearchCalls(cyc[s])[1].reply.kind = "raise"
        /\ cyc[s].results[1].prs = <<>>
        /\ cyc[s].results[2].account_label = cyc[s].results[1].account_label
        /\ cyc[s].results[2].prs # <<>>

\* a sequence without its k-th element
WithoutAt(seq, k) == SubSeq(seq, 1, k - 1) \o SubSeq(seq, k + 1, Len(seq))

\* C10: for an account without a usable credential a cycle issues no request,
\* gives one warning and adds no tuple; its results are those of the
\* configuration without that account.
C10_NoCredentialNoFetch ==
    \A s \in Slots :
        FetchOver(s) =>
            \A k \in DOMAIN config.accounts :
                LacksCredential(config.accounts[k]) =>
                    LET c == cyc[s]
                        label == config.accounts[k].label
                    IN  /\ \A i \in DOMAIN c.calls : c.calls[i].account # label
                        /\ \A i \in DOMAIN c.results : c.results[i].account_label # label
                        /\ Len(SelectSeq(c.notes, LAMBDA n :
                                  n.account = label /\ n.severity = "warning")) = 1
                        /\ [i \in DOMAIN c.results |->
                               [account |-> c.results[i].account_label,
                                query_label |-> c.results[i].query_label]]
                           = QueryPlan(WithoutAt(config.accounts, k))

\* C10 witness: an account with an empty credential beside one whose rows are shown
C10_Witness ==
    \E s \in Slots :
        /\ cyc[s].pc = "done"
        /\ \E k \in DOMAIN config.accounts :
              /\ config.accounts[k].token_env_var # ""
              /\ env[config.accounts[k].token_env_var] = ""
        /\ emitted.total > 0

-----------------------------------------------------------------------------
(* Claims about the check status resolver (SpecResolve) *)

\* the first run got as far as the check-runs request
RunsReached ==
    /\ rs.stage # "input"
    /\ rs.pr.has_pull_request_url
    /\ rs.detail.kind = "ok"
    /\ rs.detail.sha # ""
    /\ "repository_url" \in rs.pr.keys

\* the check-runs request was answered with at least one run
RunsDecide == RunsReached /\ rs.runs.kind = "ok" /\ rs.runs.check_runs # <<>>

\* the check-runs request was answered with no run
LegacyTurn == RunsReached /\ rs.runs.kind = "ok" /\ rs.runs.check_runs = <<>>

RunStatuses == {rs.runs.check_runs[i].status : i \in DOMAIN rs.runs.check_runs}
PresentConclusions == {rs.runs.check_runs[i].conclusion : i \in DOMAIN rs.runs.check_runs} \ {""}

\* C11: for a non-empty list of check runs the status is pending if a run is
\* in progress or queued; else failing if a run's conclusion is failure,
\* timed_out or action_required; else success if all present conclusions are
\* success; else unknown.
C11_RunsPrecedence ==
    RunsDecide =>
        rs.first.status =
            IF RunStatuses \cap {"in_progress", "queued"} # {} THEN "pending"
            ELSE IF PresentConclusions \cap {"failure", "timed_out", "action_required"} # {}
            THEN "failing"
            ELSE IF PresentConclusions \subseteq {"success"} THEN "success"
            ELSE "unknown"

\* C11 witness: a queued run beside a failed one resolves to pending
C11_Witness ==
    /\ RunsDecide
    /\ "queued" \in RunStatuses
    /\ "failure" \in PresentConclusions
    /\ rs.first.status = "pending"

\* C12: when the check-runs request is answered successfully with no run, the
\* legacy status request follows it for the same SHA and its state (taken
\* without regard to case, as the code lower-cases it) gives success, pending or
\* failing, anything else and a failed request giving unknown; in every other
\* situation no legacy status request is issued, and none precedes the
\* check-runs request.
C12_LegacyFallback ==
    rs.stage # "input" =>
        LET calls == rs.first.calls
            state == Lower(rs.legacy.state)
        IN  /\ LegacyTurn =>
                  /\ calls = <<Call("detail", ""), Call("check-runs", rs.detail.sha),
                               Call("status", rs.detail.sha)>>
                  /\ rs.first.status =
                        IF rs.legacy.kind # "ok" THEN "unknown"
                        ELSE IF state = "success" THEN "success"
                        ELSE IF state = "pending" THEN "pending"
                        ELSE IF state \in {"failure", "error"} THEN "failing"
                        ELSE "unknown"
            /\ ~LegacyTurn => \A i \in DOMAIN calls : calls[i].endpoint # "status"
            /\ \A i \in DOMAIN calls :
                  calls[i].endpoint = "status" =>
                      \E j \in 1..(i - 1) : calls[j] = Call("check-runs", calls[i].sha)

\* C12 witness: no check runs and the legacy state "error" resolve to failing
C12_Witness ==
    /\ LegacyTurn
    /\ rs.legacy.kind = "ok"
    /\ rs.legacy.state = "error"
    /\ rs.first.status = "failing"
    /\ Len(rs.first.calls) = 3

\* C13: when the detail fetch succeeds the reviewer info returned is the
\* requested reviewers and teams of that response whatever the later requests
\* do; without a detail URL or with a failed detail fetch the result is unknown
\* with empty reviewer info.
C13_ReviewerInfoIndependent ==
    rs.stage # "input" =>
        IF rs.pr.has_pull_request_url /\ rs.detail.kind = "ok"
        THEN /\ rs.first.reviewer_info.requested_reviewers = rs.detail.requested_reviewers
             /\ rs.first.reviewer_info.requested_teams = rs.detail.requested_teams
        ELSE /\ rs.first.status = "unknown"
             /\ rs.first.reviewer_info.requested_reviewers = <<>>
             /\ rs.first.reviewer_info.requested_teams = <<>>

\* C13 witness: the check-runs request raises after a detail response with a
\* reviewer and a team
C13_Witness ==
    /\ RunsReached
    /\ rs.runs.kind = "raise"
    /\ rs.detail.requested_reviewers # <<>>
    /\ rs.first.reviewer_info.requested_teams = <<"core">>
    /\ rs.first.status = "unknown"

-----------------------------------------------------------------------------
(* Claims about the query builder (SpecQueries) and classifier totality *)

\* the eight results of the decision table
DecisionPairs ==
    {[priority |-> HIGH, status |-> "Action Needed"],
     [priority |-> HIGH, status |-> "Review"],
     [priority |-> HIGH, status |-> "Assigned"],
     [priority |-> MEDIUM, status |-> "Team Review"],
     [priority |-> MEDIUM, status |-> "Changes Needed"],
     [priority |-> LOW, status |-> "Approved"],
     [priority |-> LOW, status |-> "Waiting"],
     [priority |-> LOW, status |-> "Watching"]}

\* C18: for every author, assignee list, label list, query label, reviewer info
\* (present or absent) and viewer login (empty or not) classify returns one of
\* the eight (tier, label) pairs of the decision table.
C18_ClassifierTotal ==
    cl.called => cl.out \in DecisionPairs

\* C18 witness: an empty viewer login, reviewer info present, labels present
C18_Witness ==
    /\ cl.called
    /\ cl.username = ""
    /\ cl.reviewer_info.given
    /\ cl.reviewer_info.requested_teams = <<>>
    /\ cl.pr.labels # <<>>
    /\ cl.out = [priority |-> LOW, status |-> "Watching"]

\* the pair used when no query is configured
DefaultPair ==
    [label |-> <<"Review", " ", "Requested">>,
     tokens |-> << <<"is:pr">>, <<"is:open">>, <<"review-requested:@me">> >>]

\* the tokens of a configured query string
RECURSIVE Tokens(_)
Tokens(query) ==
    IF query = <<>> THEN <<>>
    ELSE IF Head(query) = " " THEN Tokens(Tail(query))
    ELSE << <<Head(query)>> >> \o Tokens(Tail(query))

\* C19: build_queries returns one pair per configured query in configuration
\* order, and the single default pair when the queries entry is absent or
\* empty; under scope "specific" each query ends with one repo:<owner/name>
\* token per configured repo in repo order, under scope "all" with none.
C19_QueriesOrDefault ==
    qb.called =>
        LET f == qb.account.filters
            expected == IF f.has_queries /\ f.queries # <<>>
                        THEN [i \in DOMAIN f.queries |->
                                 [label |-> f.queries[i].label,
                                  tokens |-> Tokens(f.queries[i].query)]]
                        ELSE <<DefaultPair>>
            repo_tokens == IF f.scope = "specific"
                           THEN [j \in DOMAIN f.repos |-> <<"repo:", f.repos[j]>>]
                           ELSE <<>>
        IN  /\ Len(qb.out) = Len(expected)
            /\ \A i \in DOMAIN qb.out :
                  /\ qb.out[i].label = expected[i].label
                  /\ qb.out[i].query = expected[i].tokens \o repo_tokens

-----------------------------------------------------------------------------
(* Claims about the caches and the empty cycle (Spec) *)

UserCalls(c) == SelectSeq(c.calls, LAMBDA call : call.endpoint = "user")

\* the cycle in slot s is about to resolve the identity of an account that has
\* a credential
AtResolution(s) ==
    /\ cyc[s].pc = "account"
    /\ cyc[s].a <= Len(config.accounts)
    /\ ~LacksCredential(config.accounts[cyc[s].a])

\* the credential reference that resolution is for
ResolvedVar(s) == config.accounts[cyc[s].a].token_env_var

\* every successful identity lookup on record is in the cache with its login
LookupsCached ==
    \A s \in Slots :
        \A i \in DOMAIN UserCalls(cyc[s]) :
            LET reply == UserCalls(cyc[s])[i].reply
            IN  reply.kind = "ok" =>
                    /\ reply.token_env_var \in DOMAIN usernames
                    /\ usernames[reply.token_env_var] = reply.login

\* the username cache keeps its entries and their values
UsernamesKept ==
    \A k \in DOMAIN usernames : k \in DOMAIN usernames' /\ usernames'[k] = usernames[k]

\* a resolution that finds its credential reference cached returns the cached
\* login without a request; one that misses issues one identity lookup; no
\* other step issues one
ResolutionStep ==
    \A s \in Slots :
        IF AtResolution(s) /\ cyc'[s] # cyc[s]
        THEN IF ResolvedVar(s) \in DOMAIN usernames
             THEN /\ cyc'[s].calls = cyc[s].calls
                  /\ cyc'[s].pc = "search" => cyc'[s].username = usernames[ResolvedVar(s)]
             ELSE /\ Len(cyc'[s].calls) = Len(cyc[s].calls) + 1
                  /\ Len(UserCalls(cyc'[s])) = Len(UserCalls(cyc[s])) + 1
        ELSE Len(UserCalls(cyc'[s])) <= Len(UserCalls(cyc[s]))

\* C14: once the identity lookup for a credential reference has succeeded,
\* every later resolution for it returns the same login and issues no identity
\* lookup; a resolution that misses the cache issues exactly one.
C14_UsernameCache ==
    /\ []LookupsCached
    /\ [][UsernamesKept /\ ResolutionStep]_vars

\* C14 witness: a cycle that took its username from the cache
C14_Witness ==
    \E s \in Slots :
        /\ cyc[s].pc = "search"
        /\ cyc[s].username # ""
        /\ UserCalls(cyc[s]) = <<>>
        /\ started >= 2

\* C15: an entry once present in the username cache or in the PR-URL lookup
\* table is never removed and its value never changes.
C15_MapsAppendOnly ==
    [][/\ UsernamesKept
       /\ \A k \in DOMAIN pr_urls : k \in DOMAIN pr_urls' /\ pr_urls'[k] = pr_urls[k]]_vars

\* no account of the loaded configuration has a usable credential
NoneReachable ==
    /\ config.loaded
    /\ \A k \in DOMAIN config.accounts : LacksCredential(config.accounts[k])

\* C17 as stated: every cycle run with no reachable account (an empty account
\* list included) ends by emitting an empty snapshot: no group, total 0 and a
\* completion timestamp.
C17_EmptySnapshotEmitted ==
    NoneReachable =>
        \A s \in Slots :
            Free(s) /\ cyc[s].pc # "idle" =>
                /\ cyc[s].pc = "done"
                /\ emitted.groups = <<>>
                /\ emitted.total = 0
                /\ emitted.stamp >= 1

\* C17 amended: a cycle in which every account of a non-empty list lacks a
\* credential emits an empty snapshot (no group, total 0, a completion
\* timestamp) and leaves nothing on screen; a cycle started on an empty account
\* list returns at once without raising: it emits nothing, sets no timestamp and
\* leaves the screen and status line as they were.
C17_EmptySnapshotOrNothing ==
    /\ (NoneReachable /\ config.accounts # <<>>) =>
          \A s \in Slots :
              /\ cyc[s].pc \notin {"returned", "aborted"}
              /\ cyc[s].pc = "done" =>
                    /\ emitted.groups = <<>>
                    /\ emitted.total = 0
                    /\ emitted.stamp = last_update
                    /\ last_update >= 1
                    /\ container = <<>>
    /\ (config.loaded /\ config.accounts = <<>>) =>
          /\ \A s \in Slots : cyc[s].pc \in {"idle", "returned"}
          /\ emitted.stamp = 0
          /\ last_update = 0
          /\ status_bar = <<>>
          /\ container = <<>>
          /\ pr_urls = EmptyMap

\* C17 witness: the second cycle of a configuration whose only credential is
\* empty has emitted its snapshot
C17_Witness ==
    /\ NoneReachable
    /\ config.accounts # <<>>
    /\ \E s \in Slots : cyc[s].pc = "done" /\ cyc[s].notes # <<>>
    /\ emitted.stamp >= 2
    /\ emitted.total = 0

-----------------------------------------------------------------------------
(* Claims about the order of a snapshot (SpecOrder) *)

\* where an id first occurs in a stream
StreamPos(st, id) ==
    CHOOSE k \in DOMAIN st : st[k].id = id /\ \A m \in 1..(k - 1) : st[m].id # id

\* where a query label first occurs in the results
LabelPos(results, label) ==
    CHOOSE k \in DOMAIN results :
        results[k].query_label = label /\ \A m \in 1..(k - 1) : results[m].query_label # label

\* C16: in the snapshot a cycle emits, the groups stand in the order in which
\* their query labels first occur in the results; within a group the rows are
\* in ascending order of final priority, rows of equal priority in ascending
\* order of the age string, and rows equal on both in stream order.
C16_SnapshotOrder ==
    cyc[1].pc = "done" =>
        LET groups == emitted.groups
            results == cyc[1].results
            st == Stream(results)
        IN  /\ \A g, h \in DOMAIN groups :
                  g < h => LabelPos(results, groups[g].query_label)
                           < LabelPos(results, groups[h].query_label)
            /\ \A g \in DOMAIN groups :
                  LET rows == groups[g].rows
                  IN  \A i, j \in DOMAIN rows :
                         i < j =>
                            /\ rows[i].query_label = groups[g].query_label
                            /\ rows[i].priority <= rows[j].priority
                            /\ rows[i].priority = rows[j].priority =>
                                  ~StrLess(rows[j].age, rows[i].age)
                            /\ (rows[i].priority = rows[j].priority
                                /\ rows[i].age = rows[j].age) =>
                                  StreamPos(st, RowId(rows[i])) < StreamPos(st, RowId(rows[j]))

\* C16 witness: a snapshot with a group in which one row was moved ahead of an
\* earlier row of the stream and two rows equal on both keys kept their order
C16_Witness ==
    /\ cyc[1].pc = "done"
    /\ \E g \in DOMAIN emitted.groups :
          LET rows == emitted.groups[g].rows
              st == Stream(cyc[1].results)
          IN  /\ \E i, j \in DOMAIN rows :
                    i < j /\ StreamPos(st, RowId(rows[i])) > StreamPos(st, RowId(rows[j]))
              /\ \E i, j \in DOMAIN rows :
                    i < j /\ rows[i].priority = rows[j].priority /\ rows[i].age = rows[j].age

-----------------------------------------------------------------------------
(* Claims about the evidence for success (SpecResolve) *)

\* C21: the resolver returns success only if a check run has the conclusion
\* success or the legacy status request reports the state success; a non-empty
\* list of check runs of which none has a conclusion and none is in progress or
\* queued resolves to unknown.
C21_SuccessNeedsEvidence ==
    rs.stage # "input" =>
        /\ rs.first.status = "success" =>
              \/ RunsDecide /\ "success" \in PresentConclusions
              \/ LegacyTurn /\ rs.legacy.kind = "ok" /\ Lower(rs.legacy.state) = "success"
        /\ (/\ RunsDecide
            /\ PresentConclusions = {}
            /\ RunStatuses \cap {"in_progress", "queued"} = {}) =>
              rs.first.status = "unknown"

-----------------------------------------------------------------------------
(* Claims about the PR-URL lookup of displayed rows (Spec) *)

\* C22: at every moment every row on screen has an entry in pr_urls under its
\* row key that holds the row's web URL, and action_open_pr on a displayed row
\* never reports that the URL was not found.
C22_DisplayedRowsHaveUrl ==
    /\ \A g \in DOMAIN container :
          \A i \in DOMAIN container[g].rows :
             /\ container[g].rows[i].key \in DOMAIN pr_urls
             /\ pr_urls[container[g].rows[i].key] = container[g].rows[i].url
    /\ notice # <<"URL not found for selected PR">>

-----------------------------------------------------------------------------
(* Claims about the requests of a cycle (SpecCalls) *)

\* the (account label, query label) pairs of a cycle's search requests, in order
SearchPairs(c) ==
    [i \in DOMAIN SearchCalls(c) |->
        [account |-> SearchCalls(c)[i].account,
         query_label |-> SearchCalls(c)[i].query_label]]

IsPrefix(a, b) == Len(a) <= Len(b) /\ SubSeq(b, 1, Len(a)) = a

\* the resolver's requests for the row of a key, in order
RowCalls(c, key) ==
    SelectSeq(c.calls, LAMBDA call : call.reply.kind = "row" /\ call.reply.key = key)

\* the keys of the rows the resolver issued a request for
CalledKeys(c) ==
    {c.calls[i].reply.key : i \in {j \in DOMAIN c.calls : c.calls[j].reply.kind = "row"}}

\* C23: in one cycle each (account, query) search is requested once, in query
\* order, whatever it returns; for each row at most one detail, one check-runs
\* and one legacy status request are issued, in that order, each one only after
\* the one before it was answered successfully.
C23_NoRetry ==
    \A s \in Slots :
        LET c == cyc[s]
        IN  /\ IsPrefix(SearchPairs(c), QueryPlan(config.accounts))
            /\ FetchOver(s) => SearchPairs(c) = QueryPlan(config.accounts)
            /\ \A key \in CalledKeys(c) :
                  LET rc == RowCalls(c, key)
                  IN  /\ IsPrefix([i \in DOMAIN rc |-> rc[i].endpoint],
                                  <<"detail", "check-runs", "status">>)
                      /\ \A i \in 2..Len(rc) : rc[i - 1].reply.answer = "ok"

\* C23 witness: a finished cycle whose first search raised, with one row that
\* took all three requests and one whose check-runs request raised
C23_Witness ==
    /\ cyc[1].pc = "done"
    /\ SearchCalls(cyc[1])[1].reply.kind = "raise"
    /\ \E key \in CalledKeys(cyc[1]) : Len(RowCalls(cyc[1], key)) = 3
    /\ \E key \in CalledKeys(cyc[1]) :
          /\ Len(RowCalls(cyc[1], key)) = 2
          /\ RowCalls(cyc[1], key)[2].reply.answer = "raise"

====
